---- MODULE Spec2Model ----
(***************************************************************************)
(* CHIP-8 interpreter of src/src/main.rs: the Emulator struct, load_rom,   *)
(* execute_current, execute (one action per match arm) and draw.           *)
(*                                                                         *)
(* A panic (todo!, Option::unwrap on None, an index out of bounds, an      *)
(* arithmetic overflow under overflow checks) unwinds through main's loop  *)
(* and ends the process: it is recorded in `result` and no action is       *)
(* enabled afterwards.                                                     *)
(***************************************************************************)
EXTENDS Integers, Sequences, FiniteSets, TLC

\* ------------------------------------------------------------ constants
WIDTH == 64
HEIGHT == 32
MEMORY_SIZE == 4096
ROM_START == 512
NUM_REGISTERS == 16
FLAG == 15

\* ------------------------------------------------------------ bounds
\* Every ROM of at most MaxRomLen instructions over Alphabet is loaded.
MaxRomLen == 2
\* The call stack is a Vec and grows without limit; calls are explored up
\* to this depth.
MaxStack == 3

Byte == 0..255
Addr == 0..(MEMORY_SIZE - 1)
Reg == 0..(NUM_REGISTERS - 1)

VARIABLES memory, pc, display, index_register, var_registers, stack,
          result, overflow_checks, rom_file

vars == <<memory, pc, display, index_register, var_registers, stack,
          result, overflow_checks, rom_file>>

\* ------------------------------------------------------------ outcomes
\* What the last call of execute_current produced: nothing yet, a returned
\* bool (display changed), or a panic with its message and the values the
\* message is formatted from.
NoResult == [kind |-> "none", changed |-> FALSE, msg |-> "", args |-> <<>>]
Returned(b) == [kind |-> "returned", changed |-> b, msg |-> "", args |-> <<>>]
PanicWith(m, a) == [kind |-> "panic", changed |-> FALSE, msg |-> m, args |-> a]

MsgTodo == "not yet implemented"
MsgUnwrapNone == "called Option::unwrap() on a None value"
MsgIndex == "index out of bounds"
MsgAddOverflow == "attempt to add with overflow"

\* todo!("{:>4X?}", op): the message is formatted from op alone.
TodoPanic(op) == PanicWith(MsgTodo, <<op>>)
UnwrapPanic == PanicWith(MsgUnwrapNone, <<>>)
\* "index out of bounds: the len is {len} but the index is {index}"
IndexPanic(len, index) == PanicWith(MsgIndex, <<len, index>>)
AddOverflowPanic == PanicWith(MsgAddOverflow, <<>>)

Panicked(s) == s.result.kind = "panic"

\* ------------------------------------------------------------ storage
\* memory: [u8; 4096] is kept as the cells that were written, every other
\* cell holding the 0 it was created with; display: [[bool; WIDTH]; HEIGHT]
\* is kept as the set of <<row, col>> of its true cells. Indexing either
\* outside its length panics at the place that indexes it.
MemAt(mem, a) == IF a \in DOMAIN mem THEN mem[a] ELSE 0
Lit(disp, row, col) == <<row, col>> \in disp
Cells == (0..(HEIGHT - 1)) \X (0..(WIDTH - 1))

\* ------------------------------------------------------------ bit helpers
RECURSIVE Pow2(_)
Pow2(k) == IF k = 0 THEN 1 ELSE 2 * Pow2(k - 1)

\* a >> k on an unsigned value
Shr(a, k) == a \div Pow2(k)

\* a & b on 8-bit values, bit by bit
RECURSIVE BitAnd8(_, _, _)
BitAnd8(a, b, k) ==
    IF k = 8 THEN 0
    ELSE (IF (Shr(a, k) % 2 = 1) /\ (Shr(b, k) % 2 = 1) THEN Pow2(k) ELSE 0)
         + BitAnd8(a, b, k + 1)

\* ------------------------------------------------------------ Emulator
\* Emulator::new
new ==
    [memory |-> <<>>,
     pc |-> ROM_START,
     display |-> {},
     index_register |-> 0,
     var_registers |-> [k \in Reg |-> 0],
     stack |-> <<>>,
     result |-> NoResult]

\* Mutant of load_rom: the bytes are stored from address 0.
load_rom_at_zero(s, rom) ==
    [s EXCEPT !.memory =
        [a \in DOMAIN s.memory \cup {i : i \in 0..(Len(rom) - 1)} |->
            IF a < Len(rom) THEN rom[a + 1] ELSE s.memory[a]]]

\* Emulator::load_rom: memory[0x200 + i] = rom[i]
load_rom(s, rom) ==
    [s EXCEPT !.memory =
        [a \in DOMAIN s.memory \cup {ROM_START + i : i \in 0..(Len(rom) - 1)} |->
            IF a >= ROM_START /\ a - ROM_START < Len(rom)
            THEN rom[a - ROM_START + 1]
            ELSE s.memory[a]]]

\* The decoded fields of a 16-bit instruction.
Nibble0(op) == Shr(op, 12) % 16
Nibble1(op) == Shr(op, 8) % 16
Nibble2(op) == Shr(op, 4) % 16
Nibble3(op) == op % 16
NNN(op) == op % 4096
NN(op) == op % 256

\* The match arm an instruction selects, in the order of the match.
Arm(op) ==
    CASE Nibble0(op) = 0 /\ Nibble1(op) = 0 /\ Nibble2(op) = 14 /\ Nibble3(op) = 0 -> "00E0"
      [] Nibble0(op) = 0 /\ Nibble1(op) = 0 /\ Nibble2(op) = 14 /\ Nibble3(op) = 14 -> "00EE"
      [] Nibble0(op) = 1 -> "1nnn"
      [] Nibble0(op) = 2 -> "2nnn"
      [] Nibble0(op) = 3 -> "3xnn"
      [] Nibble0(op) = 4 -> "4xnn"
      [] Nibble0(op) = 6 -> "6xnn"
      [] Nibble0(op) = 7 -> "7xnn"
      [] Nibble0(op) = 8 /\ Nibble3(op) = 0 -> "8xy0"
      [] Nibble0(op) = 8 /\ Nibble3(op) = 7 -> "8xy7"
      [] Nibble0(op) = 10 -> "Annn"
      [] Nibble0(op) = 12 -> "Cxnn"
      [] Nibble0(op) = 13 -> "Dxyn"
      [] OTHER -> "todo"

\* ------------------------------------------------------------ match arms
\* Mutant of op_00E0: reports a change only when a cell was lit.
op_00E0_changed_if_lit(s) ==
    [s EXCEPT !.display = {}, !.result = Returned(s.display # {})]

\* (0x0, 0x0, 0xE, 0x0)
op_00E0(s) ==
    [s EXCEPT !.display = {},
              !.result = Returned(TRUE)]

\* Mutant of op_00EE: the oldest return address is taken (first in, first
\* out).
op_00EE_pops_oldest(s) ==
    IF Len(s.stack) = 0
    THEN [s EXCEPT !.result = UnwrapPanic]
    ELSE [s EXCEPT !.pc = Head(s.stack),
                   !.stack = Tail(s.stack),
                   !.result = Returned(FALSE)]

\* Mutant of op_00EE: an empty stack yields address 0 instead of a panic
\* (unwrap_or_default).
op_00EE_default_on_empty(s) ==
    IF Len(s.stack) = 0
    THEN [s EXCEPT !.pc = 0, !.result = Returned(FALSE)]
    ELSE [s EXCEPT !.pc = s.stack[Len(s.stack)],
                   !.stack = SubSeq(s.stack, 1, Len(s.stack) - 1),
                   !.result = Returned(FALSE)]

\* (0x0, 0x0, 0xE, 0xE): self.pc = self.stack.pop().unwrap()
op_00EE(s) ==
    IF Len(s.stack) = 0
    THEN [s EXCEPT !.result = UnwrapPanic]
    ELSE [s EXCEPT !.pc = s.stack[Len(s.stack)],
                   !.stack = SubSeq(s.stack, 1, Len(s.stack) - 1),
                   !.result = Returned(FALSE)]

\* (0x1, _, _, _)
op_1nnn(s, nnn) == [s EXCEPT !.pc = nnn, !.result = Returned(FALSE)]

\* (0x2, _, _, _)
op_2nnn(s, nnn) ==
    [s EXCEPT !.stack = Append(s.stack, s.pc),
              !.pc = nnn,
              !.result = Returned(FALSE)]

\* (0x3, _, _, _)
op_3xnn(s, x, nn) ==
    [s EXCEPT !.pc = s.pc + (IF s.var_registers[x] = nn THEN 2 ELSE 0),
              !.result = Returned(FALSE)]

\* (0x4, _, _, _)
op_4xnn(s, x, nn) ==
    [s EXCEPT !.pc = s.pc + (IF s.var_registers[x] # nn THEN 2 ELSE 0),
              !.result = Returned(FALSE)]

\* Mutant of op_6xnn: the immediate is stored in memory[x] instead of
\* var_registers[x].
op_6xnn_writes_memory(s, x, nn) ==
    [s EXCEPT !.memory = [a \in DOMAIN s.memory \cup {x} |->
                             IF a = x THEN nn ELSE s.memory[a]],
              !.result = Returned(FALSE)]

\* Mutant of op_6xnn: the arm ends in true, as the clear arm does.
op_6xnn_reports_change(s, x, nn) ==
    [s EXCEPT !.var_registers[x] = nn, !.result = Returned(TRUE)]

\* (0x6, _, _, _)
op_6xnn(s, x, nn) ==
    [s EXCEPT !.var_registers[x] = nn, !.result = Returned(FALSE)]

\* (0x7, _, _, _): self.var_registers[x] += nn, a plain u8 addition. With
\* overflow checks (the default of a debug build) an overflowing sum panics;
\* without them (the default of a release build) it wraps.
op_7xnn(s, x, nn) ==
    LET sum == s.var_registers[x] + nn IN
    IF sum > 255 /\ overflow_checks
    THEN [s EXCEPT !.result = AddOverflowPanic]
    ELSE [s EXCEPT !.var_registers[x] = sum % 256, !.result = Returned(FALSE)]

\* (0x8, _, _, 0x0)
op_8xy0(s, x, y) ==
    [s EXCEPT !.var_registers[x] = s.var_registers[y], !.result = Returned(FALSE)]

\* u8::overflowing_sub: <<wrapped difference, overflowed>>
overflowing_sub(b, a) ==
    IF b >= a THEN <<b - a, FALSE>> ELSE <<b - a + 256, TRUE>>

\* Mutant of op_8xy7: the flag has the opposite polarity (1 = borrow).
op_8xy7_flag_is_borrow(s, x, y) ==
    LET r == overflowing_sub(s.var_registers[y], s.var_registers[x])
        regs1 == [s.var_registers EXCEPT ![x] = r[1]]
        regs2 == [regs1 EXCEPT ![FLAG] = IF r[2] THEN 1 ELSE 0]
    IN [s EXCEPT !.var_registers = regs2, !.result = Returned(FALSE)]

\* Mutant of op_8xy7: the flag is written before the difference is
\* computed and stored.
op_8xy7_flag_first(s, x, y) ==
    LET r == overflowing_sub(s.var_registers[y], s.var_registers[x])
        regs1 == [s.var_registers EXCEPT ![FLAG] = IF r[2] THEN 0 ELSE 1]
        regs2 == [regs1 EXCEPT ![x] = overflowing_sub(regs1[y], regs1[x])[1]]
    IN [s EXCEPT !.var_registers = regs2, !.result = Returned(FALSE)]

\* (0x8, _, _, 0x7)
op_8xy7(s, x, y) ==
    LET r == overflowing_sub(s.var_registers[y], s.var_registers[x])
        regs1 == [s.var_registers EXCEPT ![x] = r[1]]
        regs2 == [regs1 EXCEPT ![FLAG] = IF r[2] THEN 0 ELSE 1]
    IN [s EXCEPT !.var_registers = regs2, !.result = Returned(FALSE)]

\* (0xA, _, _, _)
\* Mutant of op_Annn: only the low byte nn of the operand is stored.
op_Annn_low_byte(s, nnn) ==
    [s EXCEPT !.index_register = nnn % 256, !.result = Returned(FALSE)]

op_Annn(s, nnn) == [s EXCEPT !.index_register = nnn, !.result = Returned(FALSE)]

\* Mutant of op_Cxnn: the random byte is stored without the mask.
op_Cxnn_unmasked(s, x, nn, r) ==
    [s EXCEPT !.var_registers[x] = r, !.result = Returned(FALSE)]

\* (0xC, _, _, _): r is the byte rand::random::<u8>() returns
op_Cxnn(s, x, nn, r) ==
    [s EXCEPT !.var_registers[x] = BitAnd8(r, nn, 0), !.result = Returned(FALSE)]

\* _ => todo!("{:>4X?}", op)
op_todo(s, op) == [s EXCEPT !.result = TodoPanic(op)]

\* ------------------------------------------------------------ draw
\* Mutant of draw_pixel: `changed` is set for every set sprite bit, whether
\* or not the cell ends up different.
draw_pixel_changed_on_set_bit(s, row, col, sprite, j) ==
    LET pixel == Lit(s.display, row, col)
        sprite_pixel == (Shr(sprite, 7 - j) % 2) = 1
        s0 == IF sprite_pixel THEN [s EXCEPT !.result = Returned(TRUE)] ELSE s
    IN IF sprite_pixel # pixel
       THEN LET s1 == [s0 EXCEPT !.display = IF pixel THEN @ \ {<<row, col>>}
                                                      ELSE @ \cup {<<row, col>>}]
            IN IF ~Lit(s1.display, row, col)
               THEN [s1 EXCEPT !.var_registers[FLAG] = 1]
               ELSE s1
       ELSE s0

\* The body of the inner loop for one cell. `changed` is carried in
\* s.result.changed, which draw returns at its end.
draw_pixel(s, row, col, sprite, j) ==
    LET pixel == Lit(s.display, row, col)
        sprite_pixel == (Shr(sprite, 7 - j) % 2) = 1
    IN IF sprite_pixel # pixel
       THEN LET s1 == [s EXCEPT !.display = IF pixel THEN @ \ {<<row, col>>}
                                                     ELSE @ \cup {<<row, col>>},
                                !.result = Returned(TRUE)]
            IN IF ~Lit(s1.display, row, col)
               THEN [s1 EXCEPT !.var_registers[FLAG] = 1]
               ELSE s1
       ELSE s

\* Mutant of draw_cols: a column past the right edge wraps around to the
\* left edge instead of being skipped.
RECURSIVE draw_cols_wraps(_, _, _, _, _)
draw_cols_wraps(s, row, coord_x, sprite, j) ==
    IF j = 8 \/ Panicked(s) THEN s
    ELSE LET col == (coord_x + j) % WIDTH IN
         IF row >= HEIGHT
         THEN [s EXCEPT !.result = IndexPanic(HEIGHT, row)]
         ELSE draw_cols_wraps(draw_pixel(s, row, col, sprite, j), row, coord_x, sprite, j + 1)

\* for (j, col) in (coord_x..coord_x + 8).enumerate(): display[row] is
\* indexed for every col < WIDTH, and panics when row is past the grid.
RECURSIVE draw_cols(_, _, _, _, _)
draw_cols(s, row, coord_x, sprite, j) ==
    IF j = 8 \/ Panicked(s) THEN s
    ELSE LET col == coord_x + j IN
         IF col < WIDTH
         THEN IF row >= HEIGHT
              THEN [s EXCEPT !.result = IndexPanic(HEIGHT, row)]
              ELSE draw_cols(draw_pixel(s, row, col, sprite, j), row, coord_x, sprite, j + 1)
         ELSE draw_cols(s, row, coord_x, sprite, j + 1)

\* for (i, row) in (coord_y..coord_y + height).enumerate(): the sprite byte
\* memory[index_register + i] is read first, and panics past the memory.
RECURSIVE draw_rows(_, _, _, _, _)
draw_rows(s, coord_x, coord_y, height, i) ==
    IF i = height \/ Panicked(s) THEN s
    ELSE IF s.index_register + i >= MEMORY_SIZE
         THEN [s EXCEPT !.result = IndexPanic(MEMORY_SIZE, s.index_register + i)]
         ELSE draw_rows(draw_cols(s, coord_y + i, coord_x, MemAt(s.memory, s.index_register + i), 0),
                        coord_x, coord_y, height, i + 1)

\* Mutant of draw: VF is zeroed on entry.
draw_resets_flag(s, x, y, height) ==
    LET coord_x == s.var_registers[x] % WIDTH
        coord_y == s.var_registers[y] % HEIGHT
    IN draw_rows([s EXCEPT !.result = Returned(FALSE), !.var_registers[FLAG] = 0],
                 coord_x, coord_y, height, 0)

\* Emulator::draw
draw(s, x, y, height) ==
    LET coord_x == s.var_registers[x] % WIDTH
        coord_y == s.var_registers[y] % HEIGHT
    IN draw_rows([s EXCEPT !.result = Returned(FALSE)], coord_x, coord_y, height, 0)

\* ------------------------------------------------------------ execute
\* Emulator::execute: the match on the nibbles.
execute(s, op, r) ==
    LET x == Nibble1(op)
        y == Nibble2(op)
        n == Nibble3(op)
        arm == Arm(op)
    IN CASE arm = "00E0" -> op_00E0(s)
         [] arm = "00EE" -> op_00EE(s)
         [] arm = "1nnn" -> op_1nnn(s, NNN(op))
         [] arm = "2nnn" -> op_2nnn(s, NNN(op))
         [] arm = "3xnn" -> op_3xnn(s, x, NN(op))
         [] arm = "4xnn" -> op_4xnn(s, x, NN(op))
         [] arm = "6xnn" -> op_6xnn(s, x, NN(op))
         [] arm = "7xnn" -> op_7xnn(s, x, NN(op))
         [] arm = "8xy0" -> op_8xy0(s, x, y)
         [] arm = "8xy7" -> op_8xy7(s, x, y)
         [] arm = "Annn" -> op_Annn(s, NNN(op))
         [] arm = "Cxnn" -> op_Cxnn(s, x, NN(op), r)
         [] arm = "Dxyn" -> draw(s, x, y, n)
         [] OTHER -> op_todo(s, op)

\* Mutant of fetch: the low byte is taken first (little-endian).
fetch_little_endian(s) == MemAt(s.memory, s.pc) + MemAt(s.memory, s.pc + 1) * 256

\* The instruction at s.pc, big-endian.
fetch(s) == MemAt(s.memory, s.pc) * 256 + MemAt(s.memory, s.pc + 1)

\* Mutant of execute_current: the two fetch addresses wrap around to the
\* start of the memory instead of being checked.
execute_current_wraps(s, r) ==
    execute([s EXCEPT !.pc = s.pc + 2],
            MemAt(s.memory, s.pc % MEMORY_SIZE) * 256
                + MemAt(s.memory, (s.pc + 1) % MEMORY_SIZE),
            r)

\* Emulator::execute_current: memory[pc] and memory[pc + 1] are indexed in
\* this order, pc advances by 2, then execute runs.
execute_current(s, r) ==
    IF s.pc >= MEMORY_SIZE
    THEN [s EXCEPT !.result = IndexPanic(MEMORY_SIZE, s.pc)]
    ELSE IF s.pc + 1 >= MEMORY_SIZE
    THEN [s EXCEPT !.result = IndexPanic(MEMORY_SIZE, s.pc + 1)]
    ELSE execute([s EXCEPT !.pc = s.pc + 2], fetch(s), r)

\* ------------------------------------------------------------ ROMs
\* A ROM is a byte sequence; a program of 16-bit words is stored high byte
\* first.
Bytes(words) ==
    [i \in 1..(2 * Len(words)) |->
        IF i % 2 = 1 THEN words[(i + 1) \div 2] \div 256
                     ELSE words[i \div 2] % 256]

\* The instructions every short ROM is built from:
\* 00E0, 00EE, 1200, 2204, 3000, 5000, 60FF, 611F, 7002, 8017, A200, D012
Alphabet ==
    {224, 238, 4608, 8708, 12288, 20480, 24831, 24863, 28674, 32791, 41472,
     53266}

RECURSIVE ProgramsOfLen(_)
ProgramsOfLen(n) ==
    IF n = 0 THEN {<<>>}
    ELSE {Append(p, w) : p \in ProgramsOfLen(n - 1), w \in Alphabet}

\* 2204 5000 2208 00EE 00EE: two nested calls, two returns, then an
\* unsupported opcode at the outer return address.
ProgNested == <<8708, 20480, 8712, 238, 238>>
\* A200 D011 D011 00E0: the same one-row sprite drawn twice, then a clear.
ProgDrawTwice == <<41472, 53265, 53265, 224>>
\* 6F01 A200 D011 6F00 A202 D011 00E0: a draw on an empty display with VF
\* = 1, then a different sprite over the lit cells.
ProgDrawOver == <<28417, 41472, 53265, 28416, 41474, 53265, 224>>
\* 60FF 7002 7002 1202: V0 passes 0xFF and keeps counting.
ProgAddLoop == <<24831, 28674, 28674, 4610>>
\* C003 4000 5000 8010: a random V0 in 0..3 decides a skip.
ProgRandom == <<49155, 16384, 20480, 32784>>
\* 1FFF: a jump to the last memory cell.
ProgJumpEnd == <<8191>>
\* AFFF D012: a sprite that starts at the last memory cell.
ProgDrawEnd == <<45055, 53266>>

\* A ROM that fills the memory to its end: `first` at 0x200, `last` in the
\* two last cells (0xFFE, 0xFFF), zeros between.
FullRom(first, last) ==
    [k \in 1..((MEMORY_SIZE - ROM_START) \div 2) |->
        IF k = 1 THEN first
        ELSE IF k = (MEMORY_SIZE - ROM_START) \div 2 THEN last
        ELSE 0]
\* 1FFE ... A123: the last instruction of the memory runs and pc advances
\* to 0x1000.
ProgSeqEnd == FullRom(8190, 41251)
\* 1FFE ... 3000: a taken skip in the last instruction, pc = 0x1002.
ProgSkipEnd == FullRom(8190, 12288)
\* 60FF C000 CFAA: a random byte masked by 0, then one written to VF.
ProgRandomMask == <<24831, 49152, 53162>>
\* 603E A202 D011: the sprite byte 0xA2 drawn from column 62.
ProgDrawRight == <<24638, 41474, 53265>>
\* 6F05 6103 8F17 6F05 81F7: borrow-subtract with VF as the destination,
\* then as the source.
\* A300 6001 A123: set the index register, load a register, set it again.
ProgSetIndex == <<41728, 24577, 41251>>

ProgFlagOperand == <<28421, 24835, 36631, 28421, 33271>>

Programs ==
    {ProgNested, ProgDrawTwice, ProgDrawOver, ProgAddLoop, ProgRandom,
     ProgJumpEnd, ProgDrawEnd, ProgSeqEnd, ProgSkipEnd, ProgRandomMask,
     ProgDrawRight, ProgFlagOperand, ProgSetIndex}
    \cup UNION {ProgramsOfLen(n) : n \in 0..MaxRomLen}

\* ------------------------------------------------------------ the machine
Self ==
    [memory |-> memory, pc |-> pc, display |-> display,
     index_register |-> index_register, var_registers |-> var_registers,
     stack |-> stack, result |-> result]

InitFrom(s) ==
    /\ memory = s.memory
    /\ pc = s.pc
    /\ display = s.display
    /\ index_register = s.index_register
    /\ var_registers = s.var_registers
    /\ stack = s.stack
    /\ result = s.result

Commit(s) ==
    /\ memory' = s.memory
    /\ pc' = s.pc
    /\ display' = s.display
    /\ index_register' = s.index_register
    /\ var_registers' = s.var_registers
    /\ stack' = s.stack
    /\ result' = s.result
    /\ UNCHANGED <<overflow_checks, rom_file>>

\* main: the bytes of the ROM file are read, then Emulator::new() and
\* load_rom(rom).
Init ==
    /\ overflow_checks \in BOOLEAN
    /\ \E p \in Programs :
          /\ rom_file = Bytes(p)
          /\ InitFrom(load_rom(new, rom_file))

Running == result.kind # "panic"
CanFetch == pc + 1 < MEMORY_SIZE
Instruction == fetch(Self)

\* One iteration of main's loop: execute_current, r being the random byte
\* the instruction may draw.
Step(r) == Commit(execute_current(Self, r))

\* The instruction at pc can be read and selects `arm`.
Fetched(arm) == Running /\ CanFetch /\ Arm(Instruction) = arm

FetchPanic == Running /\ ~CanFetch /\ Step(0)
ClearScreen == Fetched("00E0") /\ Step(0)
Return == Fetched("00EE") /\ Step(0)
Jump == Fetched("1nnn") /\ Step(0)
Call == Fetched("2nnn") /\ Len(stack) < MaxStack /\ Step(0)
SkipEq == Fetched("3xnn") /\ Step(0)
SkipNe == Fetched("4xnn") /\ Step(0)
LoadImm == Fetched("6xnn") /\ Step(0)
AddImm == Fetched("7xnn") /\ Step(0)
Copy == Fetched("8xy0") /\ Step(0)
SubBorrow == Fetched("8xy7") /\ Step(0)
SetIndex == Fetched("Annn") /\ Step(0)
Random == Fetched("Cxnn") /\ \E r \in Byte : Step(r)
Draw == Fetched("Dxyn") /\ Step(0)
Unsupported == Fetched("todo") /\ Step(0)

Next ==
    \/ FetchPanic
    \/ ClearScreen
    \/ Return
    \/ Jump
    \/ Call
    \/ SkipEq
    \/ SkipNe
    \/ LoadImm
    \/ AddImm
    \/ Copy
    \/ SubBorrow
    \/ SetIndex
    \/ Random
    \/ Draw
    \/ Unsupported

Spec == Init /\ [][Next]_vars

\* ------------------------------------------------------------ claims
\* The fields of the instruction about to be executed, and the memory a
\* given ROM leaves behind (used to name the states of one program).
X == Nibble1(Instruction)
Y == Nibble2(Instruction)
N == Nibble3(Instruction)
Loaded(p) == load_rom(new, Bytes(p)).memory
Completes == result'.kind = "returned"
OtherRegistersKept(changed) ==
    \A k \in Reg \ changed : var_registers'[k] = var_registers[k]

\* The cells a draw addresses: sprite row i, bit j, at the start position
\* taken from the registers before the step, kept to the grid.
CoordX == var_registers[X] % WIDTH
CoordY == var_registers[Y] % HEIGHT
Addressed ==
    {ij \in (0..(N - 1)) \X (0..7) :
        CoordY + ij[1] < HEIGHT /\ CoordX + ij[2] < WIDTH}
SpriteBit(mem, base, i, j) == (MemAt(mem, base + i) \div Pow2(7 - j)) % 2 = 1
Xor(a, b) == (a /\ ~b) \/ (~a /\ b)

\* C1: a draw that completes leaves every addressed cell equal to its old
\* value XOR the sprite bit: bit (7-j) of memory[I+i] for the cell at row
\* V[y] mod 32 + i, column V[x] mod 64 + j.
C1_DrawIsPerPixelXor ==
    [][(Fetched("Dxyn") /\ Completes) =>
        \A ij \in Addressed :
            Lit(display', CoordY + ij[1], CoordX + ij[2])
            = Xor(Lit(display, CoordY + ij[1], CoordX + ij[2]),
                  SpriteBit(memory, index_register, ij[1], ij[2]))]_vars

\* C2: from any state about to execute a draw, executing that draw twice at
\* the same coordinates (both completing) gives back the display it started
\* from, and the second draw leaves VF = 1 exactly when a cell it addresses
\* with a set sprite bit was lit after the first.
C2_DoubleDrawIsIdentity ==
    (Running /\ CanFetch /\ Arm(Instruction) = "Dxyn") =>
        LET s0 == [Self EXCEPT !.pc = pc + 2]
            s1 == draw(s0, X, Y, N)
            s2 == draw(s1, X, Y, N)
            sameCoords == /\ s1.var_registers[X] % WIDTH = CoordX
                          /\ s1.var_registers[Y] % HEIGHT = CoordY
            litAfterFirst ==
                \E ij \in Addressed :
                    /\ SpriteBit(memory, index_register, ij[1], ij[2])
                    /\ Lit(s1.display, CoordY + ij[1], CoordX + ij[2])
        IN (~Panicked(s1) /\ ~Panicked(s2) /\ sameCoords) =>
              /\ s2.display = display
              /\ s2.var_registers[FLAG] =
                    IF litAfterFirst THEN 1 ELSE s1.var_registers[FLAG]

\* C3: 8xy7 with a = V[x], b = V[y] completes, leaves VF = 1 if b >= a and
\* 0 if b < a, leaves V[x] = (b - a) mod 256 when x is not 0xF, and keeps
\* every register other than V[x] and VF.
C3_BorrowSubtract ==
    [][Fetched("8xy7") =>
        LET a == var_registers[X]
            b == var_registers[Y]
        IN /\ Completes
           /\ var_registers'[FLAG] = (IF b >= a THEN 1 ELSE 0)
           /\ (X # FLAG => var_registers'[X] = (b - a) % 256)
           /\ OtherRegistersKept({X, FLAG})]_vars

\* 60FF 8017 has run: V0 = (0 - 0xFF) mod 256 = 1 with a borrow, VF = 0.
C3_Witness ==
    /\ memory = Loaded(<<24831, 32791>>)
    /\ pc = ROM_START + 4
    /\ result = Returned(FALSE)
    /\ var_registers[0] = 1
    /\ var_registers[FLAG] = 0

\* C4: 7xnn with a = V[x] completes without an error outcome, leaves V[x] =
\* (a + nn) mod 256 and keeps every other register.
C4_AddImmediateWraps ==
    [][Fetched("7xnn") =>
        /\ Completes
        /\ var_registers'[X] = (var_registers[X] + NN(Instruction)) % 256
        /\ OtherRegistersKept({X})]_vars

C6_CallReturnLifo ==
    [][/\ Fetched("2nnn") =>
            /\ Completes
            /\ stack' = Append(stack, pc + 2)
            /\ pc' = NNN(Instruction)
            /\ op_00EE(Self').pc = pc + 2
            /\ op_00EE(Self').stack = stack
       /\ (Fetched("00EE") /\ stack # <<>>) =>
            /\ Completes
            /\ pc' = stack[Len(stack)]
            /\ Len(stack') = Len(stack) - 1
            /\ \A k \in 1..Len(stack') : stack'[k] = stack[k]]_vars

\* 2204 5000 2208 00EE 00EE: both calls have returned, the inner one to
\* 0x206 and then the outer one to 0x202, and the stack is empty again.
C6_Witness ==
    /\ memory = Loaded(ProgNested)
    /\ pc = ROM_START + 2
    /\ stack = <<>>
    /\ result = Returned(FALSE)

\* C7: a draw that completes returns true exactly when some addressed cell
\* differs after the step from before it; one that alters no cell returns
\* false.
C7_DrawReturnsChanged ==
    [][(Fetched("Dxyn") /\ Completes) =>
        /\ result'.changed =
              (\E ij \in Addressed :
                  Lit(display', CoordY + ij[1], CoordX + ij[2])
                  # Lit(display, CoordY + ij[1], CoordX + ij[2]))
        /\ (display' = display => ~result'.changed)]_vars

\* A200 D011 D011: the second draw of the sprite 0xA2 found its cells
\* already as it wanted them and returned false.
C7_Witness ==
    /\ memory = Loaded(ProgDrawTwice)
    /\ pc = ROM_START + 6
    /\ result = Returned(FALSE)
    /\ display # {}

\* C8: a draw that completes leaves VF = 1 if some addressed cell was lit
\* before the step and is unlit after it, otherwise leaves VF as it was, and
\* keeps every other register.
C8_DrawCollisionFlag ==
    [][(Fetched("Dxyn") /\ Completes) =>
        LET collision ==
                \E ij \in Addressed :
                    /\ Lit(display, CoordY + ij[1], CoordX + ij[2])
                    /\ ~Lit(display', CoordY + ij[1], CoordX + ij[2])
        IN /\ var_registers'[FLAG] = (IF collision THEN 1 ELSE var_registers[FLAG])
           /\ OtherRegistersKept({FLAG})]_vars

\* 6F01 A200 D011: the first draw lit cells of an empty display, and the
\* VF = 1 that 6F01 left is still there.
C8_Witness ==
    /\ memory = Loaded(ProgDrawOver)
    /\ pc = ROM_START + 6
    /\ display # {}
    /\ var_registers[FLAG] = 1

\* C9: an instruction outside the implemented families ends the step in a
\* fatal outcome that carries both the 16-bit instruction and the program
\* counter it was fetched at, and no step follows it.
C9_UnsupportedCarriesOpAndPc ==
    [][/\ Fetched("todo") =>
            /\ result'.kind = "panic"
            /\ result'.msg = MsgTodo
            /\ \E i, j \in DOMAIN result'.args :
                  /\ i # j
                  /\ result'.args[i] = Instruction
                  /\ result'.args[j] = pc
       /\ ~(result.kind = "panic" /\ result.msg = MsgTodo)]_vars

\* C10: 00EE on an empty call stack ends the step in a panic that is neither
\* the unsupported-opcode nor the out-of-bounds one, pc keeps the value the
\* fetch gave it, the stack stays empty, and no step follows it.
C10_StackUnderflow ==
    [][/\ (Fetched("00EE") /\ stack = <<>>) =>
            /\ result'.kind = "panic"
            /\ result'.msg \notin {MsgTodo, MsgIndex}
            /\ pc' = pc + 2
            /\ stack' = <<>>
       /\ ~(result.kind = "panic" /\ result.msg = MsgUnwrapNone)]_vars

\* 00EE was the first instruction of the ROM.
C10_Witness ==
    /\ result = UnwrapPanic
    /\ stack = <<>>
    /\ pc = ROM_START + 2

\* C11: every memory read of a step is at an address in 0..4095 or the step
\* ends in the index-out-of-bounds panic: a fetch with pc or pc + 1 past the
\* memory panics on the first such address (no wrap to a low address), a
\* draw whose sprite runs past the memory panics, and a step that completes
\* has read only addresses of the memory.
C11_ReadsInBoundsOrPanic ==
    [][/\ (pc + 1 >= MEMORY_SIZE) =>
            result' = IndexPanic(MEMORY_SIZE, IF pc >= MEMORY_SIZE THEN pc ELSE pc + 1)
       /\ (Fetched("Dxyn") /\ index_register + N > MEMORY_SIZE) =>
            (result'.kind = "panic" /\ result'.msg = MsgIndex)
       /\ Completes =>
            /\ pc \in Addr /\ pc + 1 \in Addr
            /\ Arm(Instruction) = "Dxyn" =>
                  \A i \in 0..(N - 1) : index_register + i \in Addr]_vars

\* 1FFE ... 3000: the taken skip in the last instruction left pc = 0x1002,
\* and the next fetch panicked on that address.
C11_Witness ==
    /\ memory = Loaded(ProgSkipEnd)
    /\ pc = MEMORY_SIZE + 2
    /\ result = IndexPanic(MEMORY_SIZE, MEMORY_SIZE + 2)

\* C12: a step that completes decodes memory[pc] * 256 + memory[pc + 1] and
\* leaves pc = nnn after 1nnn and 2nnn, the popped address after 00EE, the
\* old pc + 4 after 3xnn with V[x] = nn and after 4xnn with V[x] # nn, and
\* the old pc + 2 after every other implemented instruction.
C12_ProgramCounter ==
    [][(Running /\ CanFetch /\ Completes) =>
        LET op == MemAt(memory, pc) * 256 + MemAt(memory, pc + 1)
            top == op \div 4096
            x == (op \div 256) % 16
            nn == op % 256
        IN pc' = CASE top = 1 \/ top = 2 -> op % 4096
                   [] op = 238 -> stack[Len(stack)]
                   [] top = 3 /\ var_registers[x] = nn -> pc + 4
                   [] top = 4 /\ var_registers[x] # nn -> pc + 4
                   [] OTHER -> pc + 2]_vars

\* C003 4000 5000 8010 with a random V0 other than 0: 4000 skipped the
\* unsupported 5000 and 8010 ran.
C12_Witness ==
    /\ memory = Loaded(ProgRandom)
    /\ pc = ROM_START + 8
    /\ result = Returned(FALSE)

\* C13: a step that executes return, jump, call, a skip, load immediate, add
\* immediate, register copy, borrow-subtract, set index or random-AND leaves
\* the display as it was, and returns false when it returns.
C13_OnlyClearAndDrawTouchDisplay ==
    [][(Running /\ CanFetch /\
        Arm(Instruction) \in {"00EE", "1nnn", "2nnn", "3xnn", "4xnn", "6xnn",
                              "7xnn", "8xy0", "8xy7", "Annn", "Cxnn"}) =>
        /\ display' = display
        /\ Completes => ~result'.changed]_vars

\* 6F01 A200 D011 6F00: the load immediate after the first draw kept the lit
\* cells and returned false.
C13_Witness ==
    /\ memory = Loaded(ProgDrawOver)
    /\ pc = ROM_START + 8
    /\ display # {}
    /\ result = Returned(FALSE)

\* C14: right after creation and the load of a ROM of L <= 4096 - 0x200
\* bytes, memory[0x200 + i] = rom[i] for every i < L, every other memory
\* cell is 0, pc = 0x200, the index register and the 16 registers are 0,
\* the call stack is empty and every display cell is false.
C14_CreationAndLoad ==
    (result.kind = "none") =>
        /\ Len(rom_file) <= MEMORY_SIZE - 512
        /\ \A a \in Addr :
              MemAt(memory, a) =
                 IF a >= 512 /\ a < 512 + Len(rom_file)
                 THEN rom_file[a - 512 + 1] ELSE 0
        /\ pc = 512
        /\ index_register = 0
        /\ \A k \in Reg : var_registers[k] = 0
        /\ stack = <<>>
        /\ \A cell \in Cells : ~Lit(display, cell[1], cell[2])

\* The 3584-byte ROM 1FFE ... 3000 has just been loaded: it fills the
\* memory from 0x200 to its last cell.
C14_Witness ==
    /\ result.kind = "none"
    /\ Len(rom_file) = MEMORY_SIZE - ROM_START
    /\ MemAt(memory, MEMORY_SIZE - 2) = 48
    /\ MemAt(memory, ROM_START) = 31

\* The machines the Random action can lead to from the current state: one
\* for each byte the generator can return.
RandomOutcomes == {execute_current(Self, r) : r \in Byte}

\* The set bits of a byte.
BitsOf(v) == {k \in 0..7 : (v \div Pow2(k)) % 2 = 1}

\* C15: Cxnn completes with V[x] = r AND nn for some byte r, so V[x] has no
\* bit outside nn and nn = 0 gives 0; every other register, pc beyond the
\* + 2 advance, the index register, the stack and the display are kept; and
\* every value r AND nn with r in 0..255 (every byte with no bit outside
\* nn) is the outcome of some step from the same state.
C15_RandomAnd ==
    /\ [][Fetched("Cxnn") =>
            LET nn == NN(Instruction) IN
            /\ Completes
            /\ \E r \in Byte :
                  BitsOf(var_registers'[X]) = BitsOf(r) \cap BitsOf(nn)
            /\ BitsOf(var_registers'[X]) \subseteq BitsOf(nn)
            /\ (nn = 0 => var_registers'[X] = 0)
            /\ OtherRegistersKept({X})
            /\ pc' = pc + 2
            /\ index_register' = index_register
            /\ stack' = stack
            /\ display' = display]_vars
    /\ [](Fetched("Cxnn") =>
            {w \in Byte : BitsOf(w) \subseteq BitsOf(NN(Instruction))}
            \subseteq {s.var_registers[X] : s \in RandomOutcomes})

\* 60FF C000 CFAA: the mask 0 turned V0 = 0xFF into 0, and the random byte
\* masked by 0xAA went to VF with all four bits of the mask set.
C15_Witness ==
    /\ memory = Loaded(ProgRandomMask)
    /\ pc = ROM_START + 6
    /\ var_registers[0] = 0
    /\ var_registers[FLAG] = 170

\* C16: a draw whose sprite bytes all lie in the memory completes without an
\* out-of-bounds failure whatever its start row and height, also when
\* V[y] mod 32 + n > 32; the sprite rows past row 31 are dropped, so the
\* rows above the start row are not written (no wrap) and every lit cell is
\* in rows 0..31.
C16_DrawClipsBottomRows ==
    [][(Fetched("Dxyn") /\ index_register + N <= MEMORY_SIZE) =>
        /\ Completes
        /\ \A cell \in display' : cell[1] \in 0..(HEIGHT - 1)
        /\ \A cell \in Cells :
              cell[1] < CoordY =>
                 Lit(display', cell[1], cell[2]) = Lit(display, cell[1], cell[2])]_vars

\* C17: with cx = V[x] mod 64 and cy = V[y] mod 32 taken before the step, a
\* draw changes no display cell outside rows cy .. cy + n - 1 and columns
\* cx .. min(cx + 7, 63): sprite bits past column 63 are dropped and no cell
\* in a column below cx is altered.
C17_DrawFootprint ==
    [][Fetched("Dxyn") =>
        \A cell \in Cells :
            (\/ cell[1] < CoordY
             \/ cell[1] > CoordY + N - 1
             \/ cell[2] < CoordX
             \/ cell[2] > (IF CoordX + 7 < 63 THEN CoordX + 7 ELSE 63)) =>
               Lit(display', cell[1], cell[2]) = Lit(display, cell[1], cell[2])]_vars

\* 603E A202 D011: of the sprite byte 0xA2 = 10100010 drawn from column 62
\* only bit 7 landed, in column 62; bits 5 and 1 (columns 64 and 68) were
\* dropped.
C17_Witness ==
    /\ memory = Loaded(ProgDrawRight)
    /\ pc = ROM_START + 6
    /\ display = {<<0, 62>>}
    /\ result = Returned(TRUE)

\* C18: after 8Fy7 VF is the borrow flag (1 if V[y] >= the old VF, else 0),
\* not the difference (V[y] - VF) mod 256; after 8xF7 with x other than 0xF
\* V[x] is (old VF - V[x]) mod 256 and VF is 1 if the old VF >= V[x], else
\* 0: both are computed from VF as it was before the step.
C18_FlagWrittenLast ==
    [][Fetched("8xy7") =>
        LET a == var_registers[X]
            b == var_registers[Y]
            flag == IF b >= a THEN 1 ELSE 0
        IN /\ (X = FLAG) =>
                /\ var_registers'[FLAG] = flag
                /\ ((b - a) % 256 # flag => var_registers'[FLAG] # (b - a) % 256)
           /\ (Y = FLAG /\ X # FLAG) =>
                /\ var_registers'[X] = (var_registers[FLAG] - a) % 256
                /\ var_registers'[FLAG] = (IF var_registers[FLAG] >= a THEN 1 ELSE 0)]_vars

\* 6F05 6103 8F17: VF = 5 and V1 = 3 gave the difference 254 with a borrow,
\* and VF holds the flag 0.
C18_Witness ==
    /\ memory = Loaded(ProgFlagOperand)
    /\ pc = ROM_START + 6
    /\ var_registers[1] = 3
    /\ var_registers[FLAG] = 0

\* C19: no step writes the memory: after every step each of the 4096 cells
\* holds the value it had before it, hence the value the load gave it, and
\* an address fetched again yields the same instruction.
C19_MemoryReadOnly ==
    [][/\ memory' = memory
       /\ \A a \in {pc, pc + 1} : MemAt(memory', a) = MemAt(memory, a)]_vars

\* 6F01 A200 D011 6F00 A202 D011 00E0 has run to its end, two draws and a
\* clear included, and the memory is still the loaded ROM.
C19_Witness ==
    /\ memory = Loaded(ProgDrawOver)
    /\ pc = ROM_START + 14
    /\ result = Returned(TRUE)

\* C20: the index register is 0 initially and always in 0..0xFFF; a step
\* that executes Annn sets it to exactly the nnn of the fetched bytes (A300
\* gives 0x300), and every other step, draw included, leaves it unchanged.
C20_IndexRegister ==
    /\ index_register = 0
    /\ [][/\ index_register \in 0..(MEMORY_SIZE - 1)
          /\ index_register' \in 0..(MEMORY_SIZE - 1)
          /\ IF Fetched("Annn")
                THEN index_register' =
                        (MemAt(memory, pc) % 16) * 256 + MemAt(memory, pc + 1)
                ELSE index_register' = index_register]_vars

\* A300 6001 A123 after its first two steps: the index register is 0x300,
\* set by A300 and kept by 6001.
C20_Witness ==
    /\ memory = Loaded(ProgSetIndex)
    /\ pc = ROM_START + 4
    /\ index_register = 768
    /\ var_registers[0] = 1

====
